---- MODULE Spec2Model ----
(***************************************************************************)
(* A model of code/preprocess.py: bag2dfs (per-topic extraction with       *)
(* duplicate-timestamp removal), mergedfs (nearest-timestamp join anchored *)
(* to the topic with fewest datapoints) and preprocess (the driver that    *)
(* writes one dataset per bag file, world and column into one HDF5 file).  *)
(*                                                                         *)
(* A dataframe is a sequence of rows [t |-> index value, f |-> columns],   *)
(* where f maps column names to cell values.  A python dict is a sequence  *)
(* of [k |-> key, v |-> value] entries with distinct keys, in insertion    *)
(* order, which is the order dict.items() and dict.keys() iterate in.      *)
(***************************************************************************)
EXTENDS Integers, Sequences, FiniteSets, TLC

VARIABLES
    pc,          \* position of the running call
    dfs,         \* mergedfs: the caller's dict of dataframes (popped by the call)
    given,       \* mergedfs: the content of dfs when the call was made
    tolerance,   \* mergedfs: pd.Timedelta(tolerance).value, in nanoseconds
    min_topic,   \* mergedfs: the topic the scan of lines 157-159 ends on
    result,      \* mergedfs: what the call produced
    bag,         \* bag2dfs: the bag file, a dict from topic to its messages
    extractors,  \* bag2dfs: the dict from topic to the column its lambda fills
    extracted,   \* bag2dfs: what the call produced
    table,       \* labeler: the synchronized rows, each with a pose and a world
    request,     \* labeler: one offset request (dx, dy, interval, delta)
    found,       \* labeler: the found-indicator of each row, once labelled
    nfiles,      \* preprocess: how many .bag files os.listdir finds
    input_cols,  \* preprocess: the input_cols argument
    index,       \* preprocess: the loop variable of line 40
    h5f,         \* preprocess: the HDF5 file: "unopened", "open" or "closed"
    opens,       \* how many times h5py.File was called
    closes,      \* how many times h5f.close was called
    store,       \* the datasets of the HDF5 file, in creation order
    calls,       \* the names create_dataset was called with, in call order
    reads,       \* how many bag files were opened
    missing,     \* the required topics without a message in the bag last opened
    raised,      \* the exception that ended preprocess, if any
    df,          \* preprocess: the labelled table of the current file
    world_float, \* whether df's world_id column was upcast to float64
    gi,          \* position of the loop of line 71 among the groups of df
    ci           \* position of the loop of line 74 among the columns

syncVars == <<dfs, given, tolerance, min_topic, result>>

bagVars == <<bag, extractors, extracted>>

labelVars == <<table, request, found>>

runVars ==
    <<nfiles, input_cols, index, h5f, opens, closes, store, calls, reads,
      missing, raised, df, world_float, gi, ci>>

vars == <<pc, syncVars, bagVars, labelVars, runVars>>

----------------------------------------------------------------------------
(* Bounds of the model *)

\* timestamps are drawn from 1..MaxTime
MaxTime == 4
\* tolerances are drawn from 0..MaxTol
MaxTol == 2
\* a dict passed to mergedfs holds at most MaxStreams dataframes
MaxStreams == 3
\* a dataframe passed to mergedfs holds at most MaxLen rows
MaxLen == 2
\* a bag holds at most MaxMsgs messages of one topic
MaxMsgs == 3
\* a table handed to the labeler holds at most MaxRows rows
MaxRows == 3
\* preprocess finds at most NFiles bag files
NFiles == 2
\* a bag given to preprocess holds at most RunMsgs messages of one topic,
\* stamped from 1..RunTime
RunMsgs == 2
RunTime == 2

----------------------------------------------------------------------------
(* Python values *)

\* None, as a value distinct from every dict key
None == "<None>"

\* a cell of a dataframe, or the payload of a message: an array of the given
\* shape (a scalar has shape <<>>) whose content is told apart by a number
Array(shape, data) == [shape |-> shape, data |-> data, isnan |-> FALSE]

Scalar(x) == Array(<<>>, x)

\* NaN, the cell pandas writes where reindex finds no match
NaN == [shape |-> <<>>, data |-> 0, isnan |-> TRUE]

\* the dict keys mergedfs is called with; the empty string is a legal key
TopicKeys == {"", "a", "b"}

\* python truthiness of a key or None: `not x`
Not(x) == x = None \/ x = ""

Abs(n) == IF n < 0 THEN -n ELSE n

Range(s) == {s[i] : i \in DOMAIN s}

\* dict lookup d[key]; the caller guards the KeyError
Lookup(d, key) == (CHOOSE e \in Range(d) : e.k = key).v

HasKey(d, key) == \E e \in Range(d) : e.k = key

\* d after d.pop(key): the remaining entries keep their order
Pop(d, key) == SelectSeq(d, LAMBDA e : e.k # key)

\* df.index
Index(frame) == [i \in DOMAIN frame |-> frame[i].t]

----------------------------------------------------------------------------
(* bag2dfs *)

\* the messages the loop of lines 103-108 keeps: bag.read_messages(topic)
\* in time order, filtered by subtopic == topic
ReadMessages(b, topic) == IF HasKey(b, topic) THEN Lookup(b, topic) ELSE <<>>

\* extractors[topic](msg): the lambdas of lines 183-208 put a message's
\* payload under a column name
Extract(ex, topic, msg) == Lookup(ex, topic) :> msg.data

\* pd.DataFrame(data=values, index=timestamps), lines 107-115
DataFrame(ex, topic, msgs) ==
    [i \in DOMAIN msgs |-> [t |-> msgs[i].t, f |-> Extract(ex, topic, msgs[i])]]

\* a variant of the filter that keeps the last of the rows sharing a label
KeepLast(frame) ==
    LET keep == {i \in DOMAIN frame :
                    \A j \in i + 1..Len(frame) : frame[j].t # frame[i].t}
        pos == [n \in 1..Cardinality(keep) |->
                   CHOOSE i \in keep : Cardinality({j \in keep : j <= i}) = n]
    IN [n \in DOMAIN pos |-> frame[pos[n]]]

\* df[~df.index.duplicated()], line 118: a row stays unless an earlier row
\* has the same index label
DropDuplicated(frame) ==
    LET keep == {i \in DOMAIN frame : \A j \in 1..i - 1 : frame[j].t # frame[i].t}
        pos == [n \in 1..Cardinality(keep) |->
                   CHOOSE i \in keep : Cardinality({j \in keep : j <= i}) = n]
    IN [n \in DOMAIN pos |-> frame[pos[n]]]

\* the loop of lines 99-120 from extractor i on, with result as it stands;
\* raised and topic tell the ValueError of line 111 and the topic it names
RECURSIVE ExtractTopics(_, _, _, _)
ExtractTopics(b, ex, i, res) ==
    IF i > Len(ex) THEN [raised |-> "", topic |-> None, dfs |-> res]
    ELSE LET topic == ex[i].k
             msgs == ReadMessages(b, topic)
         IN IF msgs = <<>>
            THEN [raised |-> "ValueError", topic |-> topic, dfs |-> <<>>]
            ELSE ExtractTopics(b, ex, i + 1,
                    Append(res, [k |-> topic,
                                 v |-> DropDuplicated(DataFrame(ex, topic, msgs))]))

Bag2dfs(b, ex) == ExtractTopics(b, ex, 1, <<>>)

----------------------------------------------------------------------------
(* mergedfs *)

\* the loop of lines 157-159 from entry i on; cur is min_topic as it stands
RECURSIVE FindMinTopic(_, _, _)
FindMinTopic(d, i, cur) ==
    IF i > Len(d) THEN cur
    ELSE IF Not(cur) \/ Len(Lookup(d, cur)) > Len(d[i].v)
         THEN FindMinTopic(d, i + 1, d[i].k)
         ELSE FindMinTopic(d, i + 1, cur)

MinTopic(d) == FindMinTopic(d, 1, None)

\* Index.get_indexer(target, 'pad'): position of the last label <= T, 0 for -1
PadIndexer(idx, T) ==
    LET S == {i \in DOMAIN idx : idx[i] <= T}
    IN IF S = {} THEN 0 ELSE CHOOSE i \in S : \A j \in S : j <= i

\* Index.get_indexer(target, 'backfill'): position of the first label >= T
BackfillIndexer(idx, T) ==
    LET S == {i \in DOMAIN idx : idx[i] >= T}
    IN IF S = {} THEN 0 ELSE CHOOSE i \in S : \A j \in S : i <= j

\* values[indexer] with numpy's wrap-around for indexer -1
Take(idx, i) == IF i = 0 THEN idx[Len(idx)] ELSE idx[i]

\* a variant that takes the left neighbour whenever there is one
NearestIndexerPad(idx, T) ==
    IF PadIndexer(idx, T) # 0 THEN PadIndexer(idx, T) ELSE BackfillIndexer(idx, T)

\* Index._get_nearest_indexer on a monotonic increasing index: the left
\* neighbour when strictly closer or when there is no right neighbour
NearestIndexer(idx, T) ==
    LET left == PadIndexer(idx, T)
        right == BackfillIndexer(idx, T)
        left_distance == Abs(Take(idx, left) - T)
        right_distance == Abs(Take(idx, right) - T)
    IN IF left_distance < right_distance \/ right = 0 THEN left ELSE right

\* Index._filter_indexer_tolerance: keep the position when within tolerance
FilterTolerance(idx, T, i, tol) ==
    IF Abs(Take(idx, i) - T) <= tol THEN i ELSE 0

\* df.reindex(index=ref_index, method='nearest', tolerance=tol)
Reindex(frame, ref_index, tol) ==
    [n \in DOMAIN ref_index |->
        LET T == ref_index[n]
            i == FilterTolerance(Index(frame), T, NearestIndexer(Index(frame), T), tol)
        IN [t |-> T,
            f |-> IF i = 0 THEN [c \in DOMAIN frame[1].f |-> NaN] ELSE frame[i].f]]

\* pd.concat([left, right], axis=1) of frames that share one index
RECURSIVE Concat(_)
Concat(frames) ==
    IF Len(frames) = 1 THEN frames[1]
    ELSE LET rest == Concat(Tail(frames))
         IN [n \in DOMAIN frames[1] |->
                [t |-> frames[1][n].t, f |-> frames[1][n].f @@ rest[n].f]]

\* DataFrame.dropna: keep the rows without a NaN cell
DropNa(frame) == SelectSeq(frame, LAMBDA r : \A c \in DOMAIN r.f : r.f[c] # NaN)

\* lines 161-172: the merge around the anchor topic
MergedTable(d, tol, anchor) ==
    LET ref_df == Lookup(d, anchor)
        other_dfs == Pop(d, anchor)
        frames == <<ref_df>> \o
            [j \in DOMAIN other_dfs |-> Reindex(other_dfs[j].v, Index(ref_df), tol)]
    IN DropNa(Concat(frames))

\* result.index = pd.to_datetime(result.index), line 173: each integer label
\* becomes the datetime64[ns] value that many nanoseconds after the epoch
ToDatetime(frame) ==
    [n \in DOMAIN frame |-> [t |-> [datetime64 |-> frame[n].t], f |-> frame[n].f]]

\* the nanoseconds since the epoch of a datetime64[ns] value
Nanoseconds(ts) == ts.datetime64

\* a variant that returns an empty table for an empty dict
MergedfsLenient(d, tol) ==
    IF d = <<>> THEN [raised |-> "", table |-> <<>>]
    ELSE [raised |-> "", table |-> ToDatetime(MergedTable(d, tol, MinTopic(d)))]

\* mergedfs(dfs, tolerance): raised names the exception that escapes, if any;
\* dfs[None] on line 161 is a KeyError
Mergedfs(d, tol) ==
    IF ~HasKey(d, MinTopic(d))
    THEN [raised |-> "KeyError", table |-> <<>>]
    ELSE [raised |-> "", table |-> ToDatetime(MergedTable(d, tol, MinTopic(d)))]

----------------------------------------------------------------------------
(* The labeler: compute_occupancy_maps, which preprocess imports and calls *)
(* on line 63.  Headings are quarter turns, so that the rotation into the  *)
(* row's frame is exact on integers, and distances are compared squared.   *)

\* cos and sin of a heading of q quarter turns
Cos(q) == CASE q = 0 -> 1 [] q = 1 -> 0 [] q = 2 -> -1 [] q = 3 -> 0
Sin(q) == CASE q = 0 -> 0 [] q = 1 -> 1 [] q = 2 -> 0 [] q = 3 -> -1

\* the displacement of cand from r, rotated by -theta into r's frame
Local(r, cand) ==
    LET ddx == cand.x - r.x
        ddy == cand.y - r.y
    IN [lx |-> Cos(r.theta) * ddx + Sin(r.theta) * ddy,
        ly |-> Cos(r.theta) * ddy - Sin(r.theta) * ddx]

\* sqrt((lx - dx)^2 + (ly - dy)^2) <= delta
Accepts(r, cand, req) ==
    LET l == Local(r, cand)
    IN (l.lx - req.dx) * (l.lx - req.dx) + (l.ly - req.dy) * (l.ly - req.dy)
          <= req.delta * req.delta

\* a variant of the scan that accepts rows of any world
RECURSIVE FirstMatchAnyWorld(_, _, _, _)
FirstMatchAnyWorld(tbl, n, i, req) ==
    IF i > Len(tbl) THEN 0
    ELSE IF tbl[i].t > tbl[n].t + req.interval THEN 0
    ELSE IF Accepts(tbl[n], tbl[i], req) THEN i
         ELSE FirstMatchAnyWorld(tbl, n, i + 1, req)

\* the scan forward in time from row i for the first row that row n accepts:
\* it ends where the window does, and passes over rows of other worlds
RECURSIVE FirstMatch(_, _, _, _)
FirstMatch(tbl, n, i, req) ==
    IF i > Len(tbl) THEN 0
    ELSE IF tbl[i].t > tbl[n].t + req.interval THEN 0
    ELSE IF tbl[i].world_id = tbl[n].world_id /\ Accepts(tbl[n], tbl[i], req)
         THEN i
         ELSE FirstMatch(tbl, n, i + 1, req)

\* the found-indicator of every row for one offset request
FoundIndicators(tbl, req) ==
    [n \in DOMAIN tbl |-> IF FirstMatch(tbl, n, n, req) # 0 THEN 1 ELSE 0]

----------------------------------------------------------------------------
(* preprocess *)

\* str() of a non-negative int
Digit(d) ==
    CASE d = 0 -> "0" [] d = 1 -> "1" [] d = 2 -> "2" [] d = 3 -> "3"
      [] d = 4 -> "4" [] d = 5 -> "5" [] d = 6 -> "6" [] d = 7 -> "7"
      [] d = 8 -> "8" [] d = 9 -> "9"

RECURSIVE Str(_)
Str(n) == IF n < 10 THEN Digit(n) ELSE Str(n \div 10) \o Digit(n % 10)

\* str(wid) of line 72: the group key is an int64, or a float64 when reindex
\* put a NaN into the world_id column before dropna
StrWid(wid, float) == IF float THEN Str(wid) \o ".0" ELSE Str(wid)

\* a variant of the name that leaves the bag index out
NameWithoutBag(idx, wid, col) == "world" \o wid \o "/" \o col

\* line 75: name = 'bag' + str(index) + '/world' + wid + '/' + col
Name(idx, wid, col) == "bag" \o Str(idx) \o "/world" \o wid \o "/" \o col

\* the extractors preprocess is called with: two of those of lines 183-208
RunExtractors ==
    << [k |-> "/world/id", v |-> "world_id"], [k |-> "/camera", v |-> "camera"] >>

\* whether reindex leaves a NaN in the frame of topic, which makes pandas
\* store the topic's integer columns as float64
Upcast(d, tol, topic) ==
    /\ topic # MinTopic(d)
    /\ \E r \in Range(Reindex(Lookup(d, topic),
                              Index(Lookup(d, MinTopic(d))), tol)) :
          \E col \in DOMAIN r.f : r.f[col].isnan

\* the name of the column compute_occupancy_maps adds
output_cols == <<"occupancy">>

\* compute_occupancy_maps as preprocess uses it: the table comes back with
\* one more column, a scalar per row
ComputeOccupancyMaps(d) ==
    [n \in DOMAIN d |-> [t |-> d[n].t, f |-> d[n].f @@ ("occupancy" :> Scalar(0))]]

\* the fillna argument of the call on line 218
fillna == -1

\* df.fillna(fillna, inplace=True), line 67
Fillna(d, value) ==
    [n \in DOMAIN d |->
        [t |-> d[n].t,
         f |-> [col \in DOMAIN d[n].f |->
                   IF d[n].f[col].isnan THEN Scalar(value) ELSE d[n].f[col]]]]

\* the keys df.groupby('world_id') iterates over: the distinct ids, ascending
Groups(d) ==
    LET ids == {r.f["world_id"].data : r \in Range(d)}
    IN [n \in 1..Cardinality(ids) |->
           CHOOSE w \in ids : Cardinality({v \in ids : v <= w}) = n]

\* world_df: the rows of one group, in table order
WorldDf(d, wid) == SelectSeq(d, LAMBDA r : r.f["world_id"].data = wid)

\* np.stack(world_df[col].values) succeeds when all cells have one shape
Stackable(world_df, col) ==
    \A r \in Range(world_df) : r.f[col].shape = world_df[1].f[col].shape

NoError == [exc |-> "", where |-> "", arg |-> ""]

\* a variant of the loop body that stacks the column before it creates the
\* dataset
WriteColumnStackFirst(st, idx, wid, float, col, world_df, is_open) ==
    LET name == Name(idx, StrWid(wid, float), col)
        dataset == [name |-> name, file |-> idx, wid |-> wid, col |-> col,
                    written |-> TRUE, while_open |-> is_open]
    IN IF ~Stackable(world_df, col)
       THEN [store |-> st,
             raised |-> [exc |-> "ValueError", where |-> "np.stack", arg |-> name]]
       ELSE IF \E d \in Range(st) : d.name = name
       THEN [store |-> st,
             raised |-> [exc |-> "ValueError", where |-> "create_dataset",
                         arg |-> name]]
       ELSE [store |-> Append(st, dataset), raised |-> NoError]

\* lines 75-82, the body of the loop over the columns: create_dataset, which
\* h5py refuses for a name that exists, then np.stack and the assignment.
\* A dataset is known by its name, the file, world and column it was made
\* for, whether its rows were assigned, and whether the file was open then;
\* the extent (length,) + shape it is allocated with is not kept
WriteColumn(st, idx, wid, float, col, world_df, is_open) ==
    LET name == Name(idx, StrWid(wid, float), col)
        dataset == [name |-> name, file |-> idx, wid |-> wid, col |-> col,
                    written |-> FALSE, while_open |-> is_open]
    IN IF \E d \in Range(st) : d.name = name
       THEN [store |-> st,
             raised |-> [exc |-> "ValueError", where |-> "create_dataset",
                         arg |-> name]]
       ELSE IF ~Stackable(world_df, col)
       THEN [store |-> Append(st, dataset),
             raised |-> [exc |-> "ValueError", where |-> "np.stack", arg |-> name]]
       ELSE [store |-> Append(st, [dataset EXCEPT !.written = TRUE]),
             raised |-> NoError]

Cols == input_cols \o output_cols

\* a variant of the loop of line 40 that goes on to the next file when
\* bag2dfs raises
SkipFile(i) == [pc |-> "loop", index |-> i + 1]

\* lines 40-49 hold no try: an exception raised for file i leaves preprocess
Uncaught(i) == [pc |-> "failed", index |-> i]

----------------------------------------------------------------------------
(* The variables of a call that is not running *)

NoResult == [raised |-> "", table |-> <<>>]

SyncIdle ==
    /\ dfs = <<>> /\ given = <<>> /\ tolerance = 0
    /\ min_topic = None /\ result = NoResult

NotExtracted == [raised |-> "", topic |-> None, dfs |-> <<>>]

BagIdle == bag = <<>> /\ extractors = <<>> /\ extracted = NotExtracted

NoRequest == [dx |-> 0, dy |-> 0, interval |-> 0, delta |-> 0]

LabelIdle == table = <<>> /\ request = NoRequest /\ found = <<>>

RunIdle ==
    /\ nfiles = 0 /\ input_cols = <<>> /\ index = 0 /\ h5f = "unopened"
    /\ opens = 0 /\ closes = 0 /\ store = <<>> /\ calls = <<>> /\ reads = 0
    /\ missing = {} /\ raised = NoError /\ df = <<>> /\ world_float = FALSE
    /\ gi = 1 /\ ci = 1

----------------------------------------------------------------------------
(* The inputs of mergedfs *)

\* strictly increasing, non-empty index values: what bag2dfs leaves
IndexesUpTo(len) ==
    {s \in UNION {[1..n -> 1..MaxTime] : n \in 1..len} :
        \A i \in 1..Len(s) - 1 : s[i] < s[i + 1]}

Indexes == IndexesUpTo(MaxLen)

\* the dataframe of topic k: one column, named after the topic, whose cell
\* is a token for the record it came from (the record's own timestamp)
Frame(k, idx) ==
    [i \in DOMAIN idx |-> [t |-> idx[i], f |-> (k :> Scalar(idx[i]))]]

KeyOrders ==
    {s \in UNION {[1..n -> TopicKeys] : n \in 0..MaxStreams} :
        \A i, j \in DOMAIN s : i # j => s[i] # s[j]}

InitSync ==
    /\ pc = "call"
    /\ \E ks \in KeyOrders : \E idxs \in [DOMAIN ks -> Indexes] :
          dfs = [i \in DOMAIN ks |-> [k |-> ks[i], v |-> Frame(ks[i], idxs[i])]]
    /\ given = <<>>
    /\ tolerance \in 0..MaxTol
    /\ min_topic = None
    /\ result = NoResult
    /\ BagIdle
    /\ LabelIdle
    /\ RunIdle

\* one call of mergedfs; line 163 pops the anchor from the caller's dict
CallMergedfs ==
    /\ pc = "call"
    /\ given' = dfs
    /\ min_topic' = MinTopic(dfs)
    /\ result' = Mergedfs(dfs, tolerance)
    /\ dfs' = IF HasKey(dfs, MinTopic(dfs)) THEN Pop(dfs, MinTopic(dfs)) ELSE dfs
    /\ pc' = "returned"
    /\ UNCHANGED <<tolerance, bagVars, labelVars, runVars>>

NextSync == CallMergedfs

SpecSync == InitSync /\ [][NextSync]_vars

----------------------------------------------------------------------------
(* The inputs of bag2dfs *)

\* the timestamps of one topic's messages, in the time order rosbag reads
\* them in; ROS may stamp several messages alike
Stamps(maxLen, maxT) ==
    {s \in UNION {[1..n -> 1..maxT] : n \in 0..maxLen} :
        \A i \in 1..Len(s) - 1 : s[i] <= s[i + 1]}

\* the topics recorded in a bag: ROS names, never empty
BagTopics == {"a", "b"}

\* a bag with the given stamps per topic; the payload of a message is a
\* token for its place among the messages of its topic
TokenBag(order, stamps) ==
    [i \in DOMAIN order |->
        [k |-> order[i],
         v |-> [n \in DOMAIN stamps[order[i]] |->
                   [t |-> stamps[order[i]][n], data |-> Scalar(n)]]]]

InitExtract ==
    /\ pc = "call"
    /\ \E stamps \in [BagTopics -> Stamps(MaxMsgs, MaxTime)] :
          bag = TokenBag(<<"a", "b">>, stamps)
    /\ \E ks \in KeyOrders : extractors = [i \in DOMAIN ks |-> [k |-> ks[i], v |-> ks[i]]]
    /\ extracted = NotExtracted
    /\ SyncIdle
    /\ LabelIdle
    /\ RunIdle

CallBag2dfs ==
    /\ pc = "call"
    /\ extracted' = Bag2dfs(bag, extractors)
    /\ pc' = "returned"
    /\ UNCHANGED <<bag, extractors, syncVars, labelVars, runVars>>

NextExtract == CallBag2dfs

SpecExtract == InitExtract /\ [][NextExtract]_vars

----------------------------------------------------------------------------
(* Claims about bag2dfs *)

\* C8: the table of a topic holds each distinct timestamp of the topic's
\* messages exactly once, with the record of the first message that bears
\* it, and removing duplicates from it again changes nothing.
C8_FirstOfEachTimestamp ==
    (pc = "returned" /\ extracted.raised = "") =>
        \A e \in Range(extracted.dfs) :
            LET msgs == ReadMessages(bag, e.k)
            IN /\ {r.t : r \in Range(e.v)} = {m.t : m \in Range(msgs)}
               /\ \A i, j \in DOMAIN e.v : i # j => e.v[i].t # e.v[j].t
               /\ \A r \in Range(e.v) : \E n \in DOMAIN msgs :
                     /\ msgs[n].t = r.t
                     /\ \A m \in 1..n - 1 : msgs[m].t # r.t
                     /\ r.f = Extract(extractors, e.k, msgs[n])
               /\ DropDuplicated(e.v) = e.v

\* a topic was extracted whose messages repeat a timestamp
C8_Witness ==
    /\ pc = "returned" /\ extracted.raised = ""
    /\ \E e \in Range(extracted.dfs) :
          /\ Len(e.v) >= 2
          /\ Len(e.v) < Len(ReadMessages(bag, e.k))

----------------------------------------------------------------------------
(* The inputs of the labeler *)

Positions == {<<0, 0>>, <<0, 1>>}

Headings == {0, 1}

Worlds == {1, 2}

Poses == [world_id : Worlds, pos : Positions, theta : Headings]

Offsets == {<<0, 0>>, <<1, 0>>, <<0, 1>>}

Intervals == {0, 1, 2}

Deltas == {0, 1}

InitLabel ==
    /\ pc = "call"
    /\ \E idx \in IndexesUpTo(MaxRows) :
       \E poses \in [DOMAIN idx -> Poses] :
          table = [n \in DOMAIN idx |->
                      [t |-> idx[n], world_id |-> poses[n].world_id,
                       x |-> poses[n].pos[1], y |-> poses[n].pos[2],
                       theta |-> poses[n].theta]]
    /\ \E o \in Offsets, i \in Intervals, d \in Deltas :
          request = [dx |-> o[1], dy |-> o[2], interval |-> i, delta |-> d]
    /\ found = <<>>
    /\ SyncIdle
    /\ BagIdle
    /\ RunIdle

CallLabel ==
    /\ pc = "call"
    /\ found' = FoundIndicators(table, request)
    /\ pc' = "returned"
    /\ UNCHANGED <<table, request, syncVars, bagVars, runVars>>

NextLabel == CallLabel

SpecLabel == InitLabel /\ [][NextLabel]_vars

----------------------------------------------------------------------------
(* Claims about the labeler *)

\* row c is a candidate of row n: same world, inside the forward window of
\* row n, and displaced from it by the requested offset up to delta
IsCandidate(n, c) ==
    LET r == table[n]
        cand == table[c]
        lx == Cos(r.theta) * (cand.x - r.x) + Sin(r.theta) * (cand.y - r.y)
        ly == Cos(r.theta) * (cand.y - r.y) - Sin(r.theta) * (cand.x - r.x)
    IN /\ cand.world_id = r.world_id
       /\ r.t <= cand.t /\ cand.t <= r.t + request.interval
       /\ (lx - request.dx) * (lx - request.dx)
            + (ly - request.dy) * (ly - request.dy)
            <= request.delta * request.delta

\* C3: the found-indicator of a row is 1 exactly when a candidate exists,
\* and 0 otherwise.
C3_FoundIffCandidate ==
    pc = "returned" =>
        \A n \in DOMAIN table :
            /\ found[n] \in {0, 1}
            /\ found[n] = 1 <=> \E c \in DOMAIN table : IsCandidate(n, c)

\* a row found its candidate two rows later, past a row of another world,
\* and a row of the same table, with later rows in its window, found none
C3_Witness ==
    /\ pc = "returned"
    /\ \E n \in DOMAIN table : \E c \in DOMAIN table :
          /\ found[n] = 1 /\ c > n + 1 /\ IsCandidate(n, c)
          /\ \A j \in n..c - 1 : ~IsCandidate(n, j)
          /\ table[n + 1].world_id # table[n].world_id
    /\ \E n \in DOMAIN table :
          /\ found[n] = 0
          /\ n < Len(table)
          /\ table[n + 1].t <= table[n].t + request.interval

----------------------------------------------------------------------------
(* A run of preprocess *)

CameraShapes == {<<1>>, <<2>>}

\* the bags a file may hold: world ids on /world/id, frames on /camera
RunBags ==
    UNION {
      UNION {
        {<< [k |-> "/world/id",
             v |-> [n \in DOMAIN ws |-> [t |-> ws[n], data |-> Scalar(wid[n])]]],
            [k |-> "/camera",
             v |-> [n \in DOMAIN cs |-> [t |-> cs[n], data |-> Array(sh[n], 0)]]] >> :
           wid \in [DOMAIN ws -> Worlds], sh \in [DOMAIN cs -> CameraShapes]} :
        cs \in Stamps(RunMsgs, RunTime)} :
      ws \in Stamps(RunMsgs, RunTime)}

InputCols ==
    {s \in UNION {[1..n -> {"world_id", "camera"}] : n \in 1..2} : TRUE}

InitRun ==
    /\ pc = "start"
    /\ nfiles \in 0..NFiles
    /\ input_cols \in InputCols
    /\ tolerance \in 0..RunTime - 1
    /\ index = 0 /\ h5f = "unopened" /\ opens = 0 /\ closes = 0
    /\ store = <<>> /\ calls = <<>> /\ reads = 0 /\ missing = {}
    /\ raised = NoError /\ df = <<>> /\ world_float = FALSE
    /\ gi = 1 /\ ci = 1
    /\ dfs = <<>> /\ given = <<>> /\ min_topic = None /\ result = NoResult
    /\ BagIdle
    /\ LabelIdle

otherVars == <<dfs, given, min_topic, result, bagVars, labelVars>>

\* lines 31-35: no .bag file in the directory
NoBagFiles ==
    /\ pc = "start"
    /\ nfiles = 0
    /\ pc' = "returned"
    /\ UNCHANGED <<tolerance, otherVars, runVars>>

\* lines 31-37: the HDF5 file is opened for writing
OpenStore ==
    /\ pc = "start"
    /\ nfiles > 0
    /\ h5f' = "open"
    /\ opens' = opens + 1
    /\ index' = 0
    /\ pc' = "loop"
    /\ UNCHANGED <<tolerance, otherVars, nfiles, input_cols, closes, store,
                   calls, reads, missing, raised, df, world_float, gi, ci>>

\* lines 46-67 for the bag b of one file: bag2dfs, mergedfs, the labeler and
\* fillna; raised tells the exception of bag2dfs or mergedfs, if any, and
\* missing the required topics without a message in b
ProcessBag(b, tol) ==
    LET ex == Bag2dfs(b, RunExtractors)
        merged == Mergedfs(ex.dfs, tol)
        absent == {e.k : e \in {x \in Range(RunExtractors) :
                                   ReadMessages(b, x.k) = <<>>}}
    IN IF ex.raised # ""
       THEN [raised |-> [exc |-> ex.raised, where |-> "bag2dfs", arg |-> ex.topic],
             df |-> <<>>, world_float |-> FALSE, missing |-> absent]
       ELSE IF merged.raised # ""
       THEN [raised |-> [exc |-> merged.raised, where |-> "mergedfs", arg |-> ""],
             df |-> <<>>, world_float |-> FALSE, missing |-> absent]
       ELSE [raised |-> NoError,
             df |-> Fillna(ComputeOccupancyMaps(merged.table), fillna),
             world_float |-> Upcast(ex.dfs, tol, "/world/id"),
             missing |-> absent]

\* what lines 46-67 make of the bags a file may hold, per tolerance
Processed == [tol \in 0..RunTime - 1 |-> {ProcessBag(b, tol) : b \in RunBags}]

\* lines 40-69 for one file: the bag is opened and extracted, the topics are
\* merged and labelled; an exception of bag2dfs or mergedfs is not caught
ProcessFile ==
    /\ pc = "loop"
    /\ index < nfiles
    /\ \E o \in Processed[tolerance] :
          /\ reads' = reads + 1
          /\ missing' = o.missing
          /\ raised' = o.raised
          /\ IF o.raised # NoError
             THEN /\ pc' = Uncaught(index).pc
                  /\ index' = Uncaught(index).index
                  /\ UNCHANGED <<df, world_float>>
             ELSE /\ df' = o.df
                  /\ world_float' = IF o.df = <<>> THEN FALSE ELSE o.world_float
                  /\ IF o.df = <<>>
                     THEN pc' = "loop" /\ index' = index + 1
                     ELSE pc' = "write" /\ index' = index
    /\ gi' = 1
    /\ ci' = 1
    /\ UNCHANGED <<tolerance, otherVars, nfiles, input_cols, h5f, opens, closes,
                   store, calls>>

\* lines 74-82 for one column of one group, and the step of the loops of
\* lines 71 and 74 that follows; an exception of h5py or numpy is not caught.
\* When the loops of a file end, df and the loop positions are dead (line 49
\* assigns df anew before any use) and are reset
WriteDataset ==
    /\ pc = "write"
    /\ LET wid == Groups(df)[gi]
           col == Cols[ci]
           w == WriteColumn(store, index, wid, world_float, col,
                            WorldDf(df, wid), h5f = "open")
       IN /\ calls' = Append(calls, Name(index, StrWid(wid, world_float), col))
          /\ store' = w.store
          /\ raised' = w.raised
          /\ IF w.raised # NoError
             THEN /\ pc' = Uncaught(index).pc
                  /\ UNCHANGED <<index, gi, ci, df, world_float>>
             ELSE IF ci < Len(Cols)
             THEN /\ pc' = "write" /\ ci' = ci + 1
                  /\ UNCHANGED <<index, gi, df, world_float>>
             ELSE IF gi < Len(Groups(df))
             THEN /\ pc' = "write" /\ gi' = gi + 1 /\ ci' = 1
                  /\ UNCHANGED <<index, df, world_float>>
             ELSE /\ pc' = "loop" /\ index' = index + 1
                  /\ gi' = 1 /\ ci' = 1 /\ df' = <<>> /\ world_float' = FALSE
    /\ UNCHANGED <<tolerance, otherVars, nfiles, input_cols, h5f, opens, closes,
                   reads, missing>>

\* a variant of the close that also runs after an exception
CloseStoreAlways ==
    /\ \/ pc = "loop" /\ index = nfiles
       \/ pc = "failed" /\ h5f = "open"
    /\ h5f' = "closed"
    /\ closes' = closes + 1
    /\ pc' = IF pc = "failed" THEN "failed" ELSE "done"
    /\ UNCHANGED <<tolerance, otherVars, nfiles, input_cols, index, opens, store,
                   calls, reads, missing, raised, df, world_float, gi, ci>>

\* line 84, reached when the loop of line 40 has run through every file
CloseStore ==
    /\ pc = "loop"
    /\ index = nfiles
    /\ h5f' = "closed"
    /\ closes' = closes + 1
    /\ pc' = "done"
    /\ UNCHANGED <<tolerance, otherVars, nfiles, input_cols, index, opens, store,
                   calls, reads, missing, raised, df, world_float, gi, ci>>

NextRun == NoBagFiles \/ OpenStore \/ ProcessFile \/ WriteDataset \/ CloseStore

SpecRun == InitRun /\ [][NextRun]_vars

----------------------------------------------------------------------------
(* Claims about preprocess *)

NoDup(seq) == \A i, j \in DOMAIN seq : i # j => seq[i] # seq[j]

Last(seq) == seq[Len(seq)]

\* the group the loop of line 71 is in
CurrentWid == Groups(df)[gi]

InCurrentGroup(d) == d.file = index /\ d.wid = CurrentWid

StackFailed == pc = "failed" /\ raised.where = "np.stack"

\* C4 as stated: after a shape mismatch in a group nothing of the group is
\* in the store.
C4_Original ==
    StackFailed => \A d \in Range(store) : ~InCurrentGroup(d)

\* C4: a column whose cells differ in shape within a group is never written:
\* np.stack fails on it with a ValueError that ends the run, after the
\* column's dataset was created; the datasets of the group's earlier columns
\* stay written, none is created for a later column, and the file stays open.
C4_FailsAfterPartialWrite ==
    /\ StackFailed =>
          /\ raised.exc = "ValueError"
          /\ ~Stackable(WorldDf(df, CurrentWid), Cols[ci])
          /\ store # <<>>
          /\ InCurrentGroup(Last(store))
          /\ Last(store).name = raised.arg
          /\ Last(store).col = Cols[ci]
          /\ ~Last(store).written
          /\ \A j \in 1..ci - 1 : \E d \in Range(store) :
                InCurrentGroup(d) /\ d.col = Cols[j] /\ d.written
          /\ Len(SelectSeq(store, InCurrentGroup)) = ci
          /\ h5f = "open" /\ closes = 0
    /\ \A n \in DOMAIN store :
          ~store[n].written => StackFailed /\ n = Len(store)
    /\ pc \in {"write", "failed"} =>
          \A d \in Range(store) :
             (d.file = index /\ d.written) => Stackable(WorldDf(df, d.wid), d.col)
    /\ pc = "write" =>
          \A n \in 1..gi : \A k \in 1..(IF n = gi THEN ci - 1 ELSE Len(Cols)) :
             \E d \in Range(store) :
                /\ d.file = index /\ d.wid = Groups(df)[n] /\ d.col = Cols[k]
                /\ d.written

\* np.stack failed on the second column of a group, the first being written
C4_Witness ==
    /\ StackFailed
    /\ ci >= 2
    /\ \E d \in Range(store) : InCurrentGroup(d) /\ d.written

\* the names of line 75 for indexes and world ids of one and two digits,
\* int and float, and for column names with and without a slash
NameTriples ==
    {<<i, StrWid(w, f), col>> :
        i \in {0, 1, 10, 11},
        w \in {0, 1, 10, 11},
        f \in BOOLEAN,
        col \in {"world_id", "camera", "occupancy", "0/camera"}}

NameInjective ==
    \A x, y \in NameTriples :
        Name(x[1], x[2], x[3]) = Name(y[1], y[2], y[3]) => x = y

\* distinct datasets of the store differ in (file, world, column) and in name
StoreKeysDistinct ==
    \A m, n \in DOMAIN store :
        m # n => /\ store[m].name # store[n].name
                 /\ <<store[m].file, store[m].wid, store[m].col>>
                       # <<store[n].file, store[n].wid, store[n].col>>

\* C5 as stated: for any list of field names no two calls of create_dataset
\* use the same key, and distinct triples yield distinct keys.
C5_Original == NoDup(calls) /\ NameInjective

\* C5: when input_cols + output_cols names no field twice, no two calls of
\* create_dataset use the same key; a call with a key already used happens
\* only for a list that names a field twice, and h5py refuses it; distinct
\* (file index, session id, field name) triples yield distinct keys.
C5_UniqueKeysForDistinctCols ==
    /\ NoDup(Cols) => NoDup(calls)
    /\ raised.where = "create_dataset" => ~NoDup(Cols) /\ ~NoDup(calls)
    /\ StoreKeysDistinct
    /\ NameInjective

\* two files wrote the same column of the same world, under distinct columns
C5_Witness ==
    /\ NoDup(Cols)
    /\ Len(Cols) >= 2
    /\ \E m, n \in DOMAIN store :
          /\ store[m].file # store[n].file
          /\ store[m].wid = store[n].wid
          /\ store[m].col = store[n].col

\* the first required topic, in the order of the extractors, that has no
\* message in the bag last opened
FirstMissing ==
    RunExtractors[CHOOSE i \in DOMAIN RunExtractors :
                     /\ RunExtractors[i].k \in missing
                     /\ \A j \in 1..i - 1 : RunExtractors[j].k \notin missing].k

\* C6: when a required topic has no message in the k-th file, bag2dfs raises
\* a ValueError naming the topic (the first such topic in extractor order),
\* preprocess does not catch it and stops: no dataset of file k or of a later
\* file exists, and no later file was opened.
C6_MissingTopicHaltsRun ==
    (reads > 0 /\ missing # {}) =>
        /\ pc = "failed"
        /\ raised.exc = "ValueError"
        /\ raised.where = "bag2dfs"
        /\ raised.arg = FirstMissing
        /\ index = reads - 1
        /\ \A d \in Range(store) : d.file < index
        /\ Len(calls) = Len(store)
        /\ ~ENABLED NextRun

\* the second file lacks a topic, after datasets of the first were written
C6_Witness ==
    /\ pc = "failed"
    /\ raised.where = "bag2dfs"
    /\ index = 1
    /\ nfiles > 1
    /\ store # <<>>

\* C7: in a run that finds a bag file the HDF5 file is opened once, before
\* any file is processed, every dataset is written while it is open, and it
\* is closed once, when every file was processed without an exception; after
\* an exception it is never closed.
C7_OpenedOnceClosedOnSuccess ==
    nfiles >= 1 =>
        /\ opens <= 1 /\ closes <= 1
        /\ opens = 1 <=> pc # "start"
        /\ (reads > 0 \/ calls # <<>>) => opens = 1
        /\ \A d \in Range(store) : d.while_open
        /\ h5f = "closed" <=> pc = "done"
        /\ closes = 1 <=> pc = "done"
        /\ pc = "done" =>
              /\ raised = NoError
              /\ index = nfiles /\ reads = nfiles
              /\ \A d \in Range(store) : d.written
        /\ pc = "failed" =>
              /\ raised # NoError
              /\ h5f = "open" /\ closes = 0
              /\ ~ENABLED NextRun

\* both files were processed and written, and the file is closed
C7_Witness ==
    /\ pc = "done"
    /\ nfiles > 1
    /\ closes = 1
    /\ \E d \in Range(store) : d.file = 0
    /\ \E d \in Range(store) : d.file = 1

----------------------------------------------------------------------------
(* Claims about mergedfs *)

Returned == pc = "returned" /\ result.raised = ""

\* the records of the dataframe stored under key k in the dict d
Records(d, k) == Range(Lookup(d, k))

Keys(d) == {e.k : e \in Range(d)}

\* C1: every row mergedfs outputs at timestamp T carries, for every stream S,
\* the cell of a record of S that lies within the tolerance of T and is a
\* nearest record of S to T.
C1_NearestWithinTolerance ==
    Returned =>
        \A n \in DOMAIN result.table : \A k \in Keys(given) :
            LET row == result.table[n]
            IN \E rec \in Records(given, k) :
                /\ rec.f[k] = row.f[k]
                /\ Abs(rec.t - Nanoseconds(row.t)) <= tolerance
                /\ \A q \in Records(given, k) :
                      Abs(rec.t - Nanoseconds(row.t))
                         <= Abs(q.t - Nanoseconds(row.t))

\* a row was matched to a record of another stream at a different timestamp,
\* although the stream held a farther record on the other side of the row
\* that the tolerance would have allowed too
C1_Witness ==
    /\ Returned
    /\ Len(given) >= 2
    /\ \E n \in DOMAIN result.table : \E k \in Keys(given) :
          LET T == Nanoseconds(result.table[n].t)
              c == result.table[n].f[k].data
          IN /\ c > T
             /\ \E q \in Records(given, k) :
                   /\ q.t < T
                   /\ T - q.t > c - T
                   /\ T - q.t <= tolerance

\* some record of stream k lies within the tolerance of T
HasNear(d, k, T, tol) == \E q \in Records(d, k) : Abs(q.t - T) <= tol

Timestamps(frame) == [n \in DOMAIN frame |-> Nanoseconds(frame[n].t)]

\* the fewest records any stream of d holds
Fewest(d) ==
    CHOOSE m \in {Len(e.v) : e \in Range(d)} :
        \A e \in Range(d) : m <= Len(e.v)

\* the output timestamps are the anchor's timestamps that every other stream
\* has a record near, in anchor order, strictly increasing, without NaN
C2_SubsequenceOfAnchor ==
    Returned =>
        /\ Timestamps(result.table) =
              SelectSeq(Index(Lookup(given, min_topic)),
                        LAMBDA T : \A k \in Keys(given) \ {min_topic} :
                                      HasNear(given, k, T, tolerance))
        /\ \A n \in 1..Len(result.table) - 1 :
              Nanoseconds(result.table[n].t) < Nanoseconds(result.table[n + 1].t)
        /\ \A n \in DOMAIN result.table : \A k \in Keys(given) :
              result.table[n].f[k] # NaN

\* C2: the output rows are exactly the anchor timestamps that every
\* non-anchor stream has a record near, strictly increasing, without a
\* missing field, and at most as many as the stream with the fewest records.
C2_Original ==
    Returned =>
        /\ C2_SubsequenceOfAnchor
        /\ Len(result.table) <= Fewest(given)

\* C9 as stated: an empty mapping fails with the dedicated EmptyInputError.
C9_Original ==
    (pc = "returned" /\ given = <<>>) => result.raised = "EmptyInputError"

\* C9: called with an empty mapping, mergedfs fails with the KeyError of the
\* lookup dfs[None] and returns no table.
C9_EmptyRaisesKeyError ==
    (pc = "returned" /\ given = <<>>) =>
        /\ result.raised = "KeyError"
        /\ result.table = <<>>
        /\ min_topic = None

C9_Witness == pc = "returned" /\ given = <<>> /\ result.raised # ""

\* C10: for a non-empty mapping the anchor is the stream with the fewest
\* records, the first such stream in iteration order.
C10_Original ==
    (pc = "returned" /\ given # <<>>) =>
        \E i \in DOMAIN given :
            /\ given[i].k = min_topic
            /\ \A j \in DOMAIN given : Len(given[i].v) <= Len(given[j].v)
            /\ \A j \in 1..i - 1 : Len(given[j].v) > Len(given[i].v)

====
